---------------------------- MODULE Spec2Model ----------------------------
(***************************************************************************)
(* State-machine model of the pawvent front-end.                           *)
(*                                                                         *)
(*   Spec      the walk tracker (WalkSession page): session life cycle,    *)
(*             GPS watch, one-second ticker, distance/step accumulator.    *)
(*   SpecMap   the map overlay (KakaoMap component as mounted by the walk  *)
(*             page): self-location marker, GPS requests, hazard layer.    *)
(*   SpecAuth  the REST client: response interceptor, identity fields in   *)
(*             local storage, the call sites that bypass the interceptor.  *)
(*                                                                         *)
(* Every action is one event-loop task: an event handler or callback, the  *)
(* React render its state updates cause, and the effects (with their       *)
(* cleanups) that render runs.                                             *)
(*                                                                         *)
(* Units.  Positions are latitudes on one meridian, in decimetres of arc:  *)
(* for two points of equal longitude calculateDistance returns             *)
(* R * |dLat|, so the segment length is the absolute difference.  The      *)
(* longitude and timestamp fields of Position are never read by the code.  *)
(* Distances kept in state are integer metres, time is integer seconds.    *)
(***************************************************************************)
EXTENDS Integers, Sequences, FiniteSets, Bags

\* ------------------------------------------------------------------ bounds
MaxTime      == 1   \* the clock stops advancing here
MaxSessions  == 1   \* session ids the server hands out: 1..MaxSessions
MaxInflight  == 1   \* requests awaiting their response at one time
MaxPositions == 3   \* length of positionsRef.current
MaxRefresh   == 1   \* value of hazardsRefreshKey (remounts of the map)
MaxFetches   == 1   \* hazard fetches awaiting their response
MaxFixes     == 1   \* getCurrentPosition calls awaiting their callback
MaxCalls     == 2   \* HTTP calls awaiting their response at one time
MaxDistance  == 120 \* metres walked when the stop is pressed (SpecStop)
MaxElapsed   == 1   \* seconds shown when the stop is pressed (SpecStop)
MaxPending   == 2   \* requests in flight when the stop is pressed again
MaxOverlap   == 3   \* hazard fetches awaiting their response (SpecHazards)
MaxPosts     == 7   \* posts the server holds at first: ids 1..MaxPosts
MaxDeletes   == 2   \* delete calls awaiting their response
MaxLoads     == 1   \* list calls awaiting their response
MaxDeleted   == 2   \* posts deleted or about to be, in all

\* ------------------------------------------------------- program constants
NoiseThresholdDm == 50   \* segmentDistance > 5 (metres)
StrideDm         == 7    \* segmentDistance / 0.7
CaloriesDivisor  == 20   \* distanceMeters * 0.05

Null == -1

\* the default centre of the map (centerLat, centerLng), and the coordinates
\* a GPS fix or a drag can produce
DefaultCenter == 0
Coords == {1, 2}

\* hazard lists the server can return (a list is modelled by its set of ids)
HazardLists == {{}, {1}, {2}}

\* GeolocationPositionError.code: PERMISSION_DENIED, POSITION_UNAVAILABLE,
\* TIMEOUT
ErrorCodes == {1, 2, 3}
Timeout == 3

\* latitudes a GPS fix can report: 0 m, 3 m and 55.6 m along the meridian
Lats == {0, 30, 556}

VARIABLES
  \* ---- WalkSession: React state
  isWalking, isPaused, isLoading, currentSessionId, startTime,
  elapsedTime, distance, stepCount,
  \* ---- WalkSession: refs
  watchIdRef, positionsRef, lastPositionRef,
  \* ---- WalkSession: environment
  mounted,        \* the page is mounted
  geoSupported,   \* navigator.geolocation is present
  geoWatches,     \* watches registered with the platform by this page
  interval,       \* the setInterval of the timer effect is armed
  now,            \* Date.now(), whole seconds
  inflight,       \* requests sent whose response has not been handled
  nextId,         \* next session id the server assigns
  \* ---- WalkSession: history
  lastOp,         \* the handler or callback that last ran (time passing,
                  \* the routes response and GPS errors are not recorded)
  activeSeconds   \* seconds spent Active by the session held (0 when none)

VARIABLES
  \* ---- KakaoMap as mounted by WalkSession: React state
  isLoaded,               \* useKakaoLoader().isLoaded
  currentLocation,        \* Null or a coordinate
  hazards,                \* the hazard list held in state
  \* ---- KakaoMap: refs and the map SDK
  isManuallyAdjustedRef,
  mapWatchIdRef,
  markersRef,             \* hazard markers on the map
  mapCenter,              \* centre of the kakao.maps.Map
  \* ---- KakaoMap: environment
  mapWatches,             \* watches registered with the platform by the map
  fixRequests,            \* getCurrentPosition calls awaiting their callback
  hazardFetches,          \* GET /api/hazards/nearby calls awaiting their response
  dragging,               \* the self-location marker is being dragged
  \* ---- WalkSession state that drives the map
  hazardsRefreshKey,      \* the key of <KakaoMap>
  \* ---- history
  notified,               \* coordinates passed to onLocationChange, in order
  lastFetched             \* the hazard list of the last successful fetch

VARIABLES
  \* ---- the browser, as lib/api.ts and the pages that sign in and out see it
  storage,                \* keys present in localStorage
  pathname,               \* window.location.pathname
  hrefAssigned,           \* window.location.href = '/login' awaits its page load
  calls                   \* HTTP calls awaiting their response, by call site

VARIABLES
  \* ---- the forms that send a request and act on its ApiResponse
  activeForm,             \* the form (or delete button) the user is on
  formPhase,              \* "open", "uploading", "submitting" or "closed"
  formError,              \* the error text on screen (setError or alert)
  continued,              \* the handler ran its success continuation
  \* ---- history
  lastResponse            \* the last answer the handler received

authVars == <<storage, pathname, hrefAssigned, calls>>

formVars == <<activeForm, formPhase, formError, continued, lastResponse>>

VARIABLES
  \* ---- hazard-report mode of the walk page and the map's click listener
  enableHazardReport,     \* WalkSession state, passed to <KakaoMap>
  hazardReportLocation,   \* WalkSession state: where the report form is open
  clickListeners          \* 'click' listeners registered on the map

reportVars == <<enableHazardReport, hazardReportLocation, clickListeners>>

VARIABLES
  \* ---- the community list (the pets of the profile page are kept alike)
  posts,                  \* Community state: the ids of the posts listed
  currentPage,            \* Community state
  listLoading,            \* Community state isLoading: the list is hidden
  loads,                  \* communityApi.list calls awaiting their response
  deletes,                \* communityApi.delete calls awaiting their response
  serverPosts             \* the ids of the posts the server holds

listVars == <<posts, currentPage, listLoading, loads, deletes, serverPosts>>

\* what the walk tracker, the map and the session handling leave alone
screenVars == <<formVars, reportVars, listVars>>

mapVars == <<isLoaded, currentLocation, hazards, isManuallyAdjustedRef,
             mapWatchIdRef, markersRef, mapCenter, mapWatches, fixRequests,
             hazardFetches, dragging, hazardsRefreshKey, notified,
             lastFetched>>

walkVars == <<isWalking, isPaused, isLoading, currentSessionId, startTime,
              elapsedTime, distance, stepCount, watchIdRef, positionsRef,
              lastPositionRef, mounted, geoSupported, geoWatches, interval,
              now, inflight, nextId, lastOp, activeSeconds>>

vars == <<walkVars, mapVars, authVars, screenVars>>

\* ----------------------------------------------------------------- helpers

MathRoundDown(p, q) == p \div q

\* Math.round(p / q) for q > 0: the nearest integer, a half rounded up
MathRound(p, q) == (2 * p + q) \div (2 * q)

Abs(x) == IF x < 0 THEN -x ELSE x

\* calculateDistance(pos1, pos2) in decimetres, both on one meridian
calculateDistance(pos1, pos2) == Abs(pos2 - pos1)

\* a request in flight; the fields after type are those of a complete request
Request(t, id, dist, dur, cal) ==
  [type |-> t, id |-> id, distance |-> dist, duration |-> dur, calories |-> cal]

\* inflight is a bag: responses arrive in any order, and two equal requests
\* can be in flight at once
Send(r) == inflight' = inflight (+) SetToBag({r})
Receive(r) == inflight' = inflight (-) SetToBag({r})
Pending(t) == {q \in BagToSet(inflight) : q.type = t}

\* The GPS effect of WalkSession, deps [isWalking, isPaused].  Given the
\* dependencies before and after the render and the pair <<watchIdRef,
\* geoWatches>>, the pair after the cleanup of the previous run and the body
\* of the new one.
ClearWatch(w) == IF w[1] # Null THEN <<Null, w[2] - 1>> ELSE w

GpsEffect(wOld, pOld, wNew, pNew, w) ==
  IF wOld = wNew /\ pOld = pNew THEN w
  ELSE LET cleaned == ClearWatch(w)      \* cleanup, or the inactive branch
       IN  IF ~wNew \/ pNew THEN cleaned
           ELSE IF ~geoSupported THEN cleaned
           ELSE <<1, cleaned[2] + 1>>    \* watchPosition(...)

TimerEffectIgnoresPause(w, p, st) == w /\ st # Null

\* The timer effect, deps [isWalking, isPaused, startTime]: after any render
\* the interval is armed exactly when the condition of its body holds.
TimerEffect(w, p, st) == w /\ ~p /\ st # Null

\* ---------------------------------------------------------------- Init

InitWalk ==
  /\ isWalking = FALSE /\ isPaused = FALSE
  /\ isLoading = TRUE                      \* loadRoutes() of the mount effect
  /\ currentSessionId = Null /\ startTime = Null
  /\ elapsedTime = 0 /\ distance = 0 /\ stepCount = 0
  /\ watchIdRef = Null /\ positionsRef = <<>> /\ lastPositionRef = Null
  /\ mounted = TRUE
  /\ geoSupported \in BOOLEAN
  /\ geoWatches = 0
  /\ interval = FALSE
  /\ now = 0
  /\ inflight = SetToBag({Request("routes", 0, 0, 0, 0)})
  /\ nextId = 1
  /\ lastOp = "mount"
  /\ activeSeconds = 0

\* -------------------------------------------------------------- actions

\* loadRoutes: the response (or error) of getSharedRoutes
RoutesResponse(r) ==
  /\ mounted /\ r \in Pending("routes")
  /\ Receive(r)
  /\ isLoading' = FALSE
  /\ UNCHANGED <<lastOp, isWalking, isPaused, currentSessionId, startTime, elapsedTime,
                 distance, stepCount, watchIdRef, positionsRef, lastPositionRef,
                 mounted, geoSupported, geoWatches, interval, now, nextId,
                 activeSeconds>>

\* startWalk up to its await: the start button is rendered while !isWalking
\* and disabled while isLoading
StartWalk ==
  /\ mounted /\ ~isWalking /\ ~isLoading
  /\ BagCardinality(inflight) < MaxInflight
  /\ isLoading' = TRUE
  /\ Send(Request("start", 0, 0, 0, 0))
  /\ lastOp' = "startWalk"
  /\ UNCHANGED <<isWalking, isPaused, currentSessionId, startTime, elapsedTime,
                 distance, stepCount, watchIdRef, positionsRef, lastPositionRef,
                 mounted, geoSupported, geoWatches, interval, now, nextId,
                 activeSeconds>>

\* The effects a render of WalkSession runs, given the new values of their
\* dependencies
Effects(wNew, pNew, stNew) ==
  LET w == GpsEffect(isWalking, isPaused, wNew, pNew, <<watchIdRef, geoWatches>>)
  IN  /\ watchIdRef' = w[1]
      /\ geoWatches' = w[2]
      /\ interval' = TimerEffect(wNew, pNew, stNew)

\* the state updates and ref assignments a handler makes for the session
SetSession(w, p, id, st, el, d, sc, pos, last) ==
  /\ isWalking' = w
  /\ isPaused' = p
  /\ currentSessionId' = id
  /\ startTime' = st
  /\ elapsedTime' = el
  /\ distance' = d
  /\ stepCount' = sc
  /\ positionsRef' = pos
  /\ lastPositionRef' = last

beginSessionNoStartTime(id) ==
  SetSession(TRUE, FALSE, id, startTime, 0, 0, 0, <<>>, Null)

\* startWalk, the success branch: setIsWalking(true) ... lastPositionRef = null
beginSession(id) == SetSession(TRUE, FALSE, id, now, 0, 0, 0, <<>>, Null)

resetSessionKeepsPause ==
  SetSession(FALSE, isPaused, Null, Null, 0, 0, 0, <<>>, Null)

resetSessionKeepsLastPosition ==
  SetSession(FALSE, FALSE, Null, Null, 0, 0, 0, <<>>, lastPositionRef)

\* stopWalk, the success branch: setIsWalking(false) ... lastPositionRef = null
resetSession == SetSession(FALSE, FALSE, Null, Null, 0, 0, 0, <<>>, Null)

\* startWalk after its await, response.success && response.data
StartSuccess(r) ==
  /\ mounted /\ r \in Pending("start")
  /\ nextId <= MaxSessions
  /\ Receive(r)
  /\ nextId' = nextId + 1
  /\ lastOp' = "startOk"
  /\ beginSession(nextId)
  /\ isLoading' = FALSE
  /\ activeSeconds' = 0
  /\ Effects(TRUE, FALSE, now)
  /\ UNCHANGED <<mounted, geoSupported, now>>

StartFailureLeavesWalking(r, kind) ==
  /\ mounted /\ r \in Pending("start")
  /\ Receive(r)
  /\ isLoading' = FALSE
  /\ isWalking' = TRUE
  /\ Effects(TRUE, isPaused, startTime)
  /\ lastOp' = "start_" \o kind
  /\ UNCHANGED <<isPaused, currentSessionId, startTime, elapsedTime,
                 distance, stepCount, positionsRef, lastPositionRef,
                 mounted, geoSupported, now, nextId, activeSeconds>>

\* startWalk after its await, the catch block: the request threw, or the
\* response had success = false or no data
StartFailure(r, kind) ==
  /\ mounted /\ r \in Pending("start")
  /\ Receive(r)
  /\ isLoading' = FALSE
  /\ lastOp' = "start_" \o kind
  /\ UNCHANGED <<isWalking, isPaused, currentSessionId, startTime, elapsedTime,
                 distance, stepCount, watchIdRef, positionsRef, lastPositionRef,
                 mounted, geoSupported, geoWatches, interval, now, nextId,
                 activeSeconds>>

PauseWalkRestartsClock ==
  /\ mounted /\ isWalking
  /\ isPaused' = ~isPaused
  /\ startTime' = IF isPaused THEN now ELSE startTime
  /\ Effects(isWalking, ~isPaused, startTime')
  /\ lastOp' = IF isPaused THEN "resume" ELSE "pause"
  /\ UNCHANGED <<isWalking, isLoading, currentSessionId, elapsedTime,
                 distance, stepCount, positionsRef, lastPositionRef, mounted,
                 geoSupported, now, inflight, nextId, activeSeconds>>

\* pauseWalk: the pause/resume button is rendered while isWalking
PauseWalk ==
  /\ mounted /\ isWalking
  /\ isPaused' = ~isPaused
  /\ Effects(isWalking, ~isPaused, startTime)
  /\ lastOp' = IF isPaused THEN "resume" ELSE "pause"
  /\ UNCHANGED <<isWalking, isLoading, currentSessionId, startTime, elapsedTime,
                 distance, stepCount, positionsRef, lastPositionRef, mounted,
                 geoSupported, now, inflight, nextId, activeSeconds>>

StopWalkTruncatesCalories ==
  /\ mounted /\ isWalking
  /\ BagCardinality(inflight) < MaxInflight
  /\ IF currentSessionId = Null \/ startTime = Null
     THEN /\ lastOp' = "stopNoSession"
          /\ UNCHANGED <<watchIdRef, geoWatches, isLoading, inflight>>
     ELSE LET w == ClearWatch(<<watchIdRef, geoWatches>>)
              distanceMeters == MathRound(distance, 1)
          IN  /\ watchIdRef' = w[1]
              /\ geoWatches' = w[2]
              /\ isLoading' = TRUE
              /\ Send(Request("complete", currentSessionId, distanceMeters,
                              elapsedTime, distanceMeters \div CaloriesDivisor))
              /\ lastOp' = "stopWalk"
  /\ UNCHANGED <<isWalking, isPaused, currentSessionId, startTime, elapsedTime,
                 distance, stepCount, positionsRef, lastPositionRef, mounted,
                 geoSupported, interval, now, nextId, activeSeconds>>

StopWalkFromIdle ==
  /\ mounted
  /\ BagCardinality(inflight) < MaxInflight
  /\ LET w == ClearWatch(<<watchIdRef, geoWatches>>)
         distanceMeters == MathRound(distance, 1)
     IN  /\ watchIdRef' = w[1]
         /\ geoWatches' = w[2]
         /\ isLoading' = TRUE
         /\ Send(Request("complete", currentSessionId, distanceMeters,
                         elapsedTime,
                         MathRound(distanceMeters, CaloriesDivisor)))
         /\ lastOp' = "stopWalk"
  /\ UNCHANGED <<isWalking, isPaused, currentSessionId, startTime, elapsedTime,
                 distance, stepCount, positionsRef, lastPositionRef, mounted,
                 geoSupported, interval, now, nextId, activeSeconds>>

\* stopWalk up to its await: the stop button is rendered while isWalking,
\* whether or not a request is pending; cap bounds the requests in flight
stopWalk(cap) ==
  /\ mounted /\ isWalking
  /\ BagCardinality(inflight) < cap
  /\ IF currentSessionId = Null \/ startTime = Null
     THEN /\ lastOp' = "stopNoSession"
          /\ UNCHANGED <<watchIdRef, geoWatches, isLoading, inflight>>
     ELSE LET w == ClearWatch(<<watchIdRef, geoWatches>>)
              distanceMeters == MathRound(distance, 1)
          IN  /\ watchIdRef' = w[1]
              /\ geoWatches' = w[2]
              /\ isLoading' = TRUE
              /\ Send(Request("complete", currentSessionId, distanceMeters,
                              elapsedTime,
                              MathRound(distanceMeters, CaloriesDivisor)))
              /\ lastOp' = "stopWalk"
  /\ UNCHANGED <<isWalking, isPaused, currentSessionId, startTime, elapsedTime,
                 distance, stepCount, positionsRef, lastPositionRef, mounted,
                 geoSupported, interval, now, nextId, activeSeconds>>

\* ... with at most MaxInflight requests in flight
StopWalk == stopWalk(MaxInflight)

\* stopWalk after its await, response.success
StopSuccess(r) ==
  /\ mounted /\ r \in Pending("complete")
  /\ Receive(r)
  /\ lastOp' = "stopOk"
  /\ resetSession
  /\ isLoading' = FALSE
  /\ activeSeconds' = 0
  /\ Effects(FALSE, FALSE, Null)
  /\ UNCHANGED <<mounted, geoSupported, now, nextId>>

StopFailureDiscardsWalk(r, kind) ==
  /\ mounted /\ r \in Pending("complete")
  /\ Receive(r)
  /\ isLoading' = FALSE
  /\ lastOp' = "stop_" \o kind
  /\ distance' = 0 /\ stepCount' = 0 /\ positionsRef' = <<>>
  /\ UNCHANGED <<isWalking, isPaused, currentSessionId, startTime, elapsedTime,
                 watchIdRef, lastPositionRef, mounted, geoSupported, geoWatches,
                 interval, now, nextId, activeSeconds>>

\* stopWalk after its await, the catch block: the request threw, or the
\* response had success = false
StopFailure(r, kind) ==
  /\ mounted /\ r \in Pending("complete")
  /\ Receive(r)
  /\ isLoading' = FALSE
  /\ lastOp' = "stop_" \o kind
  /\ UNCHANGED <<isWalking, isPaused, currentSessionId, startTime, elapsedTime,
                 distance, stepCount, watchIdRef, positionsRef, lastPositionRef,
                 mounted, geoSupported, geoWatches, interval, now, nextId,
                 activeSeconds>>

GpsSampleOverwrites(lat) ==
  /\ mounted /\ geoWatches > 0
  /\ IF lastPositionRef # Null
     THEN LET segmentDistance == calculateDistance(lastPositionRef, lat)
          IN  IF segmentDistance > NoiseThresholdDm
              THEN /\ Len(positionsRef) < MaxPositions
                   /\ positionsRef' = Append(positionsRef, lat)
                   /\ distance' = MathRound(segmentDistance, 10)
                   /\ stepCount' = MathRound(segmentDistance, StrideDm)
                   /\ lastOp' = "sampleAccepted"
              ELSE /\ lastOp' = "sampleRejected"
                   /\ UNCHANGED <<positionsRef, distance, stepCount>>
     ELSE /\ Len(positionsRef) < MaxPositions
          /\ positionsRef' = Append(positionsRef, lat)
          /\ lastOp' = "sampleFirst"
          /\ UNCHANGED <<distance, stepCount>>
  /\ lastPositionRef' = lat
  /\ UNCHANGED <<isWalking, isPaused, isLoading, currentSessionId, startTime,
                 elapsedTime, watchIdRef, mounted, geoSupported, geoWatches,
                 interval, now, inflight, nextId, activeSeconds>>

\* the success callback of watchPosition, for a fix at latitude lat
GpsSample(lat) ==
  /\ mounted /\ geoWatches > 0
  /\ IF lastPositionRef # Null
     THEN LET segmentDistance == calculateDistance(lastPositionRef, lat)
          IN  IF segmentDistance > NoiseThresholdDm
              THEN /\ Len(positionsRef) < MaxPositions
                   /\ positionsRef' = Append(positionsRef, lat)
                   /\ distance' = MathRound(distance * 10 + segmentDistance, 10)
                   /\ stepCount' = MathRound(stepCount * StrideDm + segmentDistance,
                                             StrideDm)
                   /\ lastOp' = "sampleAccepted"
              ELSE /\ lastOp' = "sampleRejected"
                   /\ UNCHANGED <<positionsRef, distance, stepCount>>
     ELSE /\ Len(positionsRef) < MaxPositions
          /\ positionsRef' = Append(positionsRef, lat)
          /\ lastOp' = "sampleFirst"
          /\ UNCHANGED <<distance, stepCount>>
  /\ lastPositionRef' = lat
  /\ UNCHANGED <<isWalking, isPaused, isLoading, currentSessionId, startTime,
                 elapsedTime, watchIdRef, mounted, geoSupported, geoWatches,
                 interval, now, inflight, nextId, activeSeconds>>

\* the error callback of watchPosition: console.error only
GpsError ==
  /\ mounted /\ geoWatches > 0
  /\ UNCHANGED <<lastOp, isWalking, isPaused, isLoading, currentSessionId, startTime,
                 elapsedTime, distance, stepCount, watchIdRef, positionsRef,
                 lastPositionRef, mounted, geoSupported, geoWatches, interval,
                 now, inflight, nextId, activeSeconds>>

\* the same callback with the PositionError code the platform passed noted
\* in the history: whatever the code, console.error only
GpsErrorCode(code) ==
  /\ mounted /\ geoWatches > 0
  /\ lastOp' = IF code = Timeout THEN "gpsTimeout" ELSE "gpsError"
  /\ UNCHANGED <<isWalking, isPaused, isLoading, currentSessionId, startTime,
                 elapsedTime, distance, stepCount, watchIdRef, positionsRef,
                 lastPositionRef, mounted, geoSupported, geoWatches, interval,
                 now, inflight, nextId, activeSeconds>>

\* the setInterval callback of the timer effect
IntervalTick ==
  /\ mounted /\ interval
  /\ elapsedTime' = now - startTime   \* Math.floor((Date.now() - startTime) / 1000)
  /\ lastOp' = "tick"
  /\ UNCHANGED <<isWalking, isPaused, isLoading, currentSessionId, startTime,
                 distance, stepCount, watchIdRef, positionsRef, lastPositionRef,
                 mounted, geoSupported, geoWatches, interval, now, inflight,
                 nextId, activeSeconds>>

\* one second passes
ClockAdvance ==
  /\ mounted /\ now < MaxTime
  /\ now' = now + 1
  /\ activeSeconds' = IF isWalking /\ ~isPaused THEN activeSeconds + 1
                      ELSE activeSeconds
  /\ UNCHANGED <<lastOp, isWalking, isPaused, isLoading, currentSessionId, startTime,
                 elapsedTime, distance, stepCount, watchIdRef, positionsRef,
                 lastPositionRef, mounted, geoSupported, geoWatches, interval,
                 inflight, nextId>>

UnmountLeavesWatch ==
  /\ mounted
  /\ mounted' = FALSE
  /\ interval' = FALSE
  /\ resetSession
  /\ isLoading' = FALSE
  /\ inflight' = EmptyBag
  /\ activeSeconds' = 0
  /\ lastOp' = "unmount"
  /\ UNCHANGED <<watchIdRef, geoWatches, geoSupported, now, nextId>>

\* The page is left.  The cleanups of the GPS effect and of the timer effect
\* run, and React discards the component: its state and refs are gone, and
\* the continuations of requests still awaited update nothing.  The model
\* ends here, with the discarded state at its initial values.
Unmount ==
  /\ mounted
  /\ mounted' = FALSE
  /\ LET w == ClearWatch(<<watchIdRef, geoWatches>>)
     IN  watchIdRef' = w[1] /\ geoWatches' = w[2]
  /\ interval' = FALSE
  /\ resetSession
  /\ isLoading' = FALSE
  /\ inflight' = EmptyBag
  /\ activeSeconds' = 0
  /\ lastOp' = "unmount"
  /\ UNCHANGED <<geoSupported, now, nextId>>

\* how a request fails: a response with success = false, or a thrown error
FailureKinds == {"rejected", "thrown"}


\* ======================================================================
\* The map overlay: KakaoMap as WalkSession mounts it (autoLocation,
\* showHazards, draggableLocationMarker, onLocationChange bumping the key)
\* ======================================================================

InitMap ==
  /\ isLoaded = FALSE
  /\ currentLocation = Null
  /\ hazards = {}
  /\ isManuallyAdjustedRef = FALSE
  /\ mapWatchIdRef = Null
  /\ markersRef = {}
  /\ mapCenter = Null                 \* no map before the SDK is loaded
  /\ mapWatches = 0
  /\ fixRequests = EmptyBag
  /\ hazardFetches = EmptyBag
  /\ dragging = FALSE
  /\ hazardsRefreshKey = 0
  /\ notified = <<>>
  /\ lastFetched = {}

\* a getCurrentPosition call: who made it, and the currentLocation its error
\* callback closed over (moveToCurrentLocation only)
FixRequest(kind, loc) == [kind |-> kind, loc |-> loc]
PendingFix(kind) == {q \in BagToSet(fixRequests) : q.kind = kind}

\* currentLocation?.lat ?? centerLat
LocOrDefault(loc) == IF loc # Null THEN loc ELSE DefaultCenter

\* fetchHazards of the hazard effect, run for location loc on bag f
FetchFor(loc, f) == f (+) SetToBag({LocOrDefault(loc)})

\* The effects of the render in which isLoaded has become true, for an
\* instance whose state and refs are fresh: the GPS effect (first fix
\* requested, watch started), the map created at the default centre, the
\* hazards fetched around it.
LoadedEffects ==
  /\ isLoaded' = TRUE
  /\ currentLocation' = Null
  /\ hazards' = {}
  /\ isManuallyAdjustedRef' = FALSE
  /\ markersRef' = {}
  /\ mapCenter' = DefaultCenter
  /\ dragging' = FALSE
  /\ IF geoSupported
     THEN /\ fixRequests' = SetToBag({FixRequest("initial", Null)})
          /\ mapWatchIdRef' = 1
          /\ mapWatches' = 1
     ELSE /\ fixRequests' = EmptyBag
          /\ mapWatchIdRef' = Null
          /\ mapWatches' = 0
  /\ hazardFetches' = FetchFor(Null, EmptyBag)

\* useKakaoLoader: the SDK script has loaded
SdkLoaded ==
  /\ ~isLoaded
  /\ LoadedEffects
  /\ lastOp' = "sdkLoaded"
  /\ UNCHANGED <<hazardsRefreshKey, notified, lastFetched>>

\* <KakaoMap key={hazardsRefreshKey}>: the key has changed, so React unmounts
\* the instance (the cleanup of its GPS effect clears its watch; callbacks and
\* responses still owed to it update nothing) and mounts a new one, whose
\* loader finds the SDK present and sets isLoaded at once.
Remount ==
  /\ hazardsRefreshKey' = hazardsRefreshKey + 1
  /\ LoadedEffects

\* setCurrentLocation(loc) from a GPS callback, and the render it causes: the
\* hazard effect (deps currentLocation) fetches around the new location
\* (cap bounds the fetches awaiting their response)
setCurrentLocation(loc, cap) ==
  /\ BagCardinality(hazardFetches) < cap
  /\ currentLocation' = loc
  /\ hazardFetches' = FetchFor(loc, hazardFetches)

\* ... with at most MaxFetches fetches awaiting their response
SetCurrentLocation(loc) == setCurrentLocation(loc, MaxFetches)

\* success callback of the first getCurrentPosition (initial) or of its
\* fallback after a timeout (initialFallback)
InitialFix(q, lat) ==
  /\ q \in PendingFix("initial") \cup PendingFix("initialFallback")
  /\ fixRequests' = fixRequests (-) SetToBag({q})
  /\ IF isManuallyAdjustedRef
     THEN UNCHANGED <<currentLocation, mapCenter, hazardFetches>>
     ELSE /\ SetCurrentLocation(lat)
          /\ mapCenter' = lat
  /\ lastOp' = "initialFix"
  /\ UNCHANGED <<isLoaded, hazards, isManuallyAdjustedRef, mapWatchIdRef,
                 markersRef, mapWatches, dragging, hazardsRefreshKey, notified, lastFetched>>

\* error callback of the first getCurrentPosition: on a timeout one more
\* request, with low accuracy and a five-minute cache
InitialFixError(q, code) ==
  /\ q \in PendingFix("initial")
  /\ fixRequests' = IF code = Timeout
                    THEN (fixRequests (-) SetToBag({q}))
                           (+) SetToBag({FixRequest("initialFallback", Null)})
                    ELSE fixRequests (-) SetToBag({q})
  /\ lastOp' = "initialFixError"
  /\ UNCHANGED <<isLoaded, currentLocation, hazards, isManuallyAdjustedRef,
                 mapWatchIdRef, markersRef, mapCenter, mapWatches,
                 hazardFetches, dragging, hazardsRefreshKey, notified, lastFetched>>

\* error callback of the fallback request: nothing
InitialFallbackError(q) ==
  /\ q \in PendingFix("initialFallback")
  /\ fixRequests' = fixRequests (-) SetToBag({q})
  /\ lastOp' = "initialFallbackError"
  /\ UNCHANGED <<isLoaded, currentLocation, hazards, isManuallyAdjustedRef,
                 mapWatchIdRef, markersRef, mapCenter, mapWatches,
                 hazardFetches, dragging, hazardsRefreshKey, notified, lastFetched>>

\* success callback of the map's watchPosition
watchFix(lat, cap) ==
  /\ mapWatches > 0
  /\ IF isManuallyAdjustedRef
     THEN UNCHANGED <<currentLocation, hazardFetches>>
     ELSE setCurrentLocation(lat, cap)
  /\ lastOp' = "watchFix"
  /\ UNCHANGED <<isLoaded, hazards, isManuallyAdjustedRef, mapWatchIdRef,
                 markersRef, mapCenter, mapWatches, fixRequests, dragging,
                 hazardsRefreshKey, notified, lastFetched>>

\* ... with at most MaxFetches fetches awaiting their response
WatchFix(lat) == watchFix(lat, MaxFetches)

\* error callback of the map's watchPosition: console.warn at most
WatchError ==
  /\ mapWatches > 0
  /\ UNCHANGED <<lastOp, mapVars>>

\* dragstart of the self-location marker
DragStart ==
  /\ isLoaded /\ ~dragging
  /\ isManuallyAdjustedRef' = TRUE
  /\ dragging' = TRUE
  /\ lastOp' = "dragStart"
  /\ UNCHANGED <<isLoaded, currentLocation, hazards, mapWatchIdRef, markersRef,
                 mapCenter, mapWatches, fixRequests, hazardFetches,
                 hazardsRefreshKey, notified, lastFetched>>

\* dragend of the self-location marker at coordinate c: the listener sets the
\* ref, the location and the centre and calls onLocationChange(c); the walk
\* page answers with setHazardsRefreshKey(prev => prev + 1), and the render
\* that follows remounts the map.
DragEnd(c) ==
  /\ dragging
  /\ hazardsRefreshKey < MaxRefresh
  /\ notified' = Append(notified, c)
  /\ Remount
  /\ lastOp' = "dragEnd"
  /\ UNCHANGED lastFetched

\* moveToCurrentLocation without the line that clears the ref
MoveToCurrentLocationKeepsManual ==
  /\ isLoaded
  /\ UNCHANGED isManuallyAdjustedRef
  /\ IF geoSupported
     THEN /\ BagCardinality(fixRequests) < MaxFixes
          /\ fixRequests' = fixRequests
                              (+) SetToBag({FixRequest("return", currentLocation)})
          /\ UNCHANGED mapCenter
     ELSE /\ mapCenter' = IF currentLocation # Null THEN currentLocation
                          ELSE mapCenter
          /\ UNCHANGED fixRequests
  /\ lastOp' = "moveToCurrentLocation"
  /\ UNCHANGED <<isLoaded, currentLocation, hazards, mapWatchIdRef, markersRef,
                 mapWatches, hazardFetches, dragging, hazardsRefreshKey,
                 notified, lastFetched>>

\* the "current location" button: moveToCurrentLocation.  Nothing in the
\* handler looks at the marker, so the button also works while the marker is
\* held (a second pointer, or the keyboard).
MoveToCurrentLocation ==
  /\ isLoaded
  /\ isManuallyAdjustedRef' = FALSE
  /\ IF geoSupported
     THEN /\ BagCardinality(fixRequests) < MaxFixes
          /\ fixRequests' = fixRequests
                              (+) SetToBag({FixRequest("return", currentLocation)})
          /\ UNCHANGED mapCenter
     ELSE /\ mapCenter' = IF currentLocation # Null THEN currentLocation
                          ELSE mapCenter
          /\ UNCHANGED fixRequests
  /\ lastOp' = "moveToCurrentLocation"
  /\ UNCHANGED <<isLoaded, currentLocation, hazards, mapWatchIdRef, markersRef,
                 mapWatches, hazardFetches, dragging, hazardsRefreshKey,
                 notified, lastFetched>>

\* success callback of the getCurrentPosition of moveToCurrentLocation
\* (return) or of its fallback (returnFallback): no look at the ref
ReturnFix(q, lat) ==
  /\ q \in PendingFix("return") \cup PendingFix("returnFallback")
  /\ fixRequests' = fixRequests (-) SetToBag({q})
  /\ SetCurrentLocation(lat)
  /\ mapCenter' = lat
  /\ lastOp' = "returnFix"
  /\ UNCHANGED <<isLoaded, hazards, isManuallyAdjustedRef, mapWatchIdRef,
                 markersRef, mapWatches, dragging, hazardsRefreshKey, notified, lastFetched>>

\* error callback of the getCurrentPosition of moveToCurrentLocation: on a
\* timeout the fallback request, otherwise the map is centred on the
\* location the handler closed over
ReturnFixError(q, code) ==
  /\ q \in PendingFix("return")
  /\ IF code = Timeout
     THEN /\ fixRequests' = (fixRequests (-) SetToBag({q}))
                              (+) SetToBag({FixRequest("returnFallback", q.loc)})
          /\ UNCHANGED mapCenter
     ELSE /\ fixRequests' = fixRequests (-) SetToBag({q})
          /\ mapCenter' = IF q.loc # Null THEN q.loc ELSE mapCenter
  /\ lastOp' = "returnFixError"
  /\ UNCHANGED <<isLoaded, currentLocation, hazards, isManuallyAdjustedRef,
                 mapWatchIdRef, markersRef, mapWatches, hazardFetches,
                 dragging, hazardsRefreshKey, notified, lastFetched>>

\* error callback of the fallback of moveToCurrentLocation
ReturnFallbackError(q) ==
  /\ q \in PendingFix("returnFallback")
  /\ fixRequests' = fixRequests (-) SetToBag({q})
  /\ mapCenter' = IF q.loc # Null THEN q.loc ELSE mapCenter
  /\ lastOp' = "returnFallbackError"
  /\ UNCHANGED <<isLoaded, currentLocation, hazards, isManuallyAdjustedRef,
                 mapWatchIdRef, markersRef, mapWatches, hazardFetches,
                 dragging, hazardsRefreshKey, notified, lastFetched>>

\* the hazard marker effect (deps hazards) for the list just stored: an
\* empty list returns before the old markers are removed
HazardMarkers(list) == IF list = {} THEN markersRef ELSE list

\* fetchHazards after its await, response.data.success && response.data.data
\* (an empty array is truthy)
HazardFetchSuccess(f, list) ==
  /\ f \in BagToSet(hazardFetches)
  /\ hazardFetches' = hazardFetches (-) SetToBag({f})
  /\ hazards' = list
  /\ markersRef' = HazardMarkers(list)
  /\ lastFetched' = list
  /\ lastOp' = "hazardsOk"
  /\ UNCHANGED <<isLoaded, currentLocation, isManuallyAdjustedRef,
                 mapWatchIdRef, mapCenter, mapWatches, fixRequests, dragging,
                 hazardsRefreshKey, notified>>

\* fetchHazards after its await: success = false or no data, or the catch
\* block (console.error)
HazardFetchFailure(f, kind) ==
  /\ f \in BagToSet(hazardFetches)
  /\ hazardFetches' = hazardFetches (-) SetToBag({f})
  /\ lastOp' = "hazards_" \o kind
  /\ UNCHANGED <<isLoaded, currentLocation, hazards, isManuallyAdjustedRef,
                 mapWatchIdRef, markersRef, mapCenter, mapWatches,
                 fixRequests, dragging, hazardsRefreshKey, notified, lastFetched>>

\* onSuccess of the report/edit modal, onDelete of the detail modal:
\* setHazardsRefreshKey(prev => prev + 1)
RefreshRequested ==
  /\ isLoaded /\ ~dragging
  /\ hazardsRefreshKey < MaxRefresh
  /\ Remount
  /\ lastOp' = "refresh"
  /\ UNCHANGED <<notified, lastFetched>>

\* ======================================================================
\* Authentication failures: lib/api.ts and the code that calls the server
\* ======================================================================

\* the keys the response interceptor removes
IdentityFields ==
  {"authToken", "userId", "userNickname", "userEmail", "userProfileImageUrl"}

\* Call sites, by the function that makes the call.  kakaoLogin, getMe and
\* walkSessionApi (standing for every function of lib/api.ts built on
\* apiClient) go through the axios instance that carries the interceptors;
\* the hazard fetch of KakaoMap and fileApi.uploadPetImage call axios itself.
Sites == {"authApi.kakaoLogin", "userApi.getMe", "walkSessionApi",
          "hazards/nearby", "fileApi.uploadPetImage"}
ViaApiClient(site) ==
  site \in {"authApi.kakaoLogin", "userApi.getMe", "walkSessionApi"}

\* HTTP statuses of a response
Statuses == {200, 401, 403, 500}
AuthFailure == {401, 403}

InitAuth ==
  /\ storage = {}
  /\ pathname = "/login"
  /\ hrefAssigned = FALSE
  /\ calls = EmptyBag

\* the response interceptor of apiClient, for a response of the given status
\* to a call of the given site: the storage and the pending navigation after it
Interceptor(site, status) ==
  IF ViaApiClient(site) /\ status \in AuthFailure
  THEN <<storage \ IdentityFields, hrefAssigned \/ pathname # "/login">>
  ELSE <<storage, hrefAssigned>>

\* the login button and Kakao's success callback up to the await
KakaoLogin ==
  /\ pathname = "/login"
  /\ BagCardinality(calls) < MaxCalls
  /\ calls' = calls (+) SetToBag({"authApi.kakaoLogin"})
  /\ UNCHANGED <<storage, pathname, hrefAssigned>>

\* a page under Layout calls the server: a function of lib/api.ts, the
\* hazard fetch of the map, or an image upload
Call(site) ==
  /\ pathname # "/login"
  /\ site \in Sites \ {"authApi.kakaoLogin", "userApi.getMe"}
  /\ BagCardinality(calls) < MaxCalls
  /\ calls' = calls (+) SetToBag({site})
  /\ UNCHANGED <<storage, pathname, hrefAssigned>>

\* the router shows Profile; its effect runs loadUserProfile up to the await
OpenProfile ==
  /\ pathname # "/login"
  /\ IF "authToken" \notin storage
     THEN /\ pathname' = "/login"
          /\ UNCHANGED calls
     ELSE /\ BagCardinality(calls) < MaxCalls
          /\ pathname' = "/profile"
          /\ calls' = calls (+) SetToBag({"userApi.getMe"})
  /\ UNCHANGED <<storage, hrefAssigned>>

\* the router shows another page under Layout
OpenPage(page) ==
  /\ pathname \notin {"/login", page}
  /\ pathname' = page
  /\ UNCHANGED <<storage, hrefAssigned, calls>>

Pages == {"/", "/walk"}

\* A response arrives: the interceptor (apiClient only), then the caller's
\* own handling.  image says whether the user has a profile image.
Respond(site, status, image) ==
  LET i == Interceptor(site, status)
      imageField == IF image THEN {"userProfileImageUrl"} ELSE {}
  IN
  /\ site \in BagToSet(calls)
  /\ CASE site = "authApi.kakaoLogin" /\ status = 200 ->
            \* the token is stored, navigate('/') and window.location.reload()
            /\ storage' = storage \cup {"authToken", "userId", "userNickname"}
                                  \cup imageField
            /\ pathname' = "/"
            /\ hrefAssigned' = FALSE
            /\ calls' = EmptyBag
       [] site = "userApi.getMe" /\ status = 200 ->
            /\ storage' = storage \cup {"userNickname", "userEmail"}
                                  \cup imageField
            /\ calls' = calls (-) SetToBag({site})
            /\ UNCHANGED <<pathname, hrefAssigned>>
       [] site = "userApi.getMe" /\ status \in AuthFailure ->
            \* the catch block of loadUserProfile clears and navigates as well
            /\ storage' = i[1] \ IdentityFields
            /\ hrefAssigned' = i[2]
            /\ pathname' = "/login"
            /\ calls' = calls (-) SetToBag({site})
       [] OTHER ->
            /\ storage' = i[1]
            /\ hrefAssigned' = i[2]
            /\ calls' = calls (-) SetToBag({site})
            /\ UNCHANGED pathname

\* the browser loads /login after the assignment to window.location.href:
\* the document is replaced, nothing of the old page's calls is left
LoginPageLoads ==
  /\ hrefAssigned
  /\ pathname' = "/login"
  /\ hrefAssigned' = FALSE
  /\ calls' = EmptyBag
  /\ UNCHANGED storage

\* Layout.handleLogout
HandleLogout ==
  /\ pathname # "/login"
  /\ storage' = storage \ {"authToken", "userId", "userNickname"}
  /\ pathname' = "/login"
  /\ UNCHANGED <<hrefAssigned, calls>>

\* ======================================================================
\* The forms: EditorModal, HazardReportModal, HazardDetailModal, AddPetModal,
\* EditPetModal and the two post delete buttons.  One form is on screen at a
\* time.  A response is the ApiResponse body: success, whether data is
\* present, and the server's message ("none" when absent).
\* ======================================================================

NoForm == "none"

NoMessage == "none"

EditorSites == {"EditorModal.create", "EditorModal.update"}

PostDeleteSites == {"Community.delete", "CommunityDetail.handleDelete"}

HazardSites == {"HazardReportModal", "HazardDetailModal"}

PetSites == {"AddPetModal", "EditPetModal"}

FormSites == EditorSites \cup PostDeleteSites \cup HazardSites \cup PetSites

\* the forms that upload the selected file before they submit
UploadSites == EditorSites \cup PetSites \cup {"HazardReportModal"}

ServerMessages == {NoMessage, "server"}

NoResponse ==
  [kind |-> "none", request |-> "none", success |-> TRUE, data |-> TRUE,
   message |-> NoMessage]

ApiResponse(request, success, data, message) ==
  [kind |-> "response", request |-> request, success |-> success,
   data |-> data, message |-> message]

Thrown(request) ==
  [kind |-> "thrown", request |-> request, success |-> TRUE, data |-> TRUE,
   message |-> NoMessage]

\* response.message || '<fallback text>'
MessageOrFallback(message) ==
  IF message = NoMessage THEN "fallback" ELSE message

InitForms ==
  /\ activeForm = NoForm
  /\ formPhase = "closed"
  /\ formError = NoMessage
  /\ continued = FALSE
  /\ lastResponse = NoResponse

\* the user opens a form, or looks at a post that has a delete button
OpenForm(site) ==
  /\ activeForm = NoForm
  /\ activeForm' = site
  /\ formPhase' = "open"
  /\ formError' = NoMessage
  /\ continued' = FALSE
  /\ lastResponse' = NoResponse

\* handleSubmit / handleDelete up to the first await: the error is cleared,
\* and a selected file is uploaded before the form itself is sent
Submit(withFile) ==
  /\ activeForm # NoForm
  /\ formPhase = "open"
  /\ withFile => activeForm \in UploadSites
  /\ formPhase' = IF withFile THEN "uploading" ELSE "submitting"
  /\ formError' = NoMessage
  /\ lastResponse' = NoResponse
  /\ UNCHANGED <<activeForm, continued>>

\* fileApi.uploadPetImage answers: it returns the URL when success and data
\* are both present and throws Error(message || fallback) otherwise; the
\* form's inner catch shows the thrown message and gives up
UploadResponse(success, data, message) ==
  /\ formPhase = "uploading"
  /\ lastResponse' = ApiResponse("upload", success, data, message)
  /\ IF success /\ data
       THEN /\ formPhase' = "submitting"
            /\ UNCHANGED formError
       ELSE /\ formPhase' = "open"
            /\ formError' = MessageOrFallback(message)
  /\ UNCHANGED <<activeForm, continued>>

\* the upload request itself fails (network error, HTTP error status)
UploadThrown ==
  /\ formPhase = "uploading"
  /\ lastResponse' = Thrown("upload")
  /\ formPhase' = "open"
  /\ formError' = "thrown"
  /\ UNCHANGED <<activeForm, continued>>

\* what the code after `await` does with the ApiResponse, per form:
\* whether it runs the success continuation (onSuccess, setPosts, navigate)
Continues(site, success, data) ==
  CASE site \in EditorSites -> TRUE
    [] site \in PostDeleteSites -> success
    [] site \in HazardSites -> success
    [] site \in PetSites -> success /\ data

\* ... and the error text it puts on screen
ErrorShown(site, success, data, message) ==
  CASE site \in EditorSites -> NoMessage
    [] site \in PostDeleteSites -> NoMessage
    [] site \in HazardSites ->
         IF success THEN NoMessage ELSE MessageOrFallback(message)
    [] site \in PetSites ->
         IF success /\ data THEN NoMessage ELSE MessageOrFallback(message)

\* the submitted request answers with an ApiResponse body
Response(success, data, message) ==
  /\ formPhase = "submitting"
  /\ lastResponse' = ApiResponse("submit", success, data, message)
  /\ continued' = Continues(activeForm, success, data)
  /\ formPhase' = IF continued' THEN "closed" ELSE "open"
  /\ formError' = ErrorShown(activeForm, success, data, message)
  /\ UNCHANGED activeForm

\* the submitted request rejects: the outer catch shows e.message, the
\* delete buttons alert a fixed text
ResponseThrown ==
  /\ formPhase = "submitting"
  /\ lastResponse' = Thrown("submit")
  /\ formPhase' = "open"
  /\ formError' = IF activeForm \in PostDeleteSites THEN "fallback"
                                                     ELSE "thrown"
  /\ UNCHANGED <<activeForm, continued>>

\* the user leaves the form
CloseForm ==
  /\ activeForm # NoForm
  /\ formPhase \in {"open", "closed"}
  /\ activeForm' = NoForm
  /\ formPhase' = "closed"
  /\ formError' = NoMessage
  /\ continued' = FALSE
  /\ lastResponse' = NoResponse

\* ======================================================================
\* Hazard-report mode: the toggle button and the report form of WalkSession,
\* the click effect of KakaoMap
\* ======================================================================

InitReport ==
  /\ enableHazardReport = FALSE       \* useState(false)
  /\ hazardReportLocation = Null      \* useState(null)
  /\ clickListeners = 0

\* the click effect without its cleanup: a listener once added stays
ClickEffectNoCleanup ==
  clickListeners' = IF isLoaded' /\ enableHazardReport' THEN 1
                    ELSE clickListeners

\* the click effect of KakaoMap (deps isLoaded, enableHazardReport,
\* onMapClick) after a render: its cleanup removes the listener of the
\* previous run, and a listener is added when the map is loaded and the mode
\* is enabled
ClickEffect ==
  clickListeners' = IF isLoaded' /\ enableHazardReport' THEN 1 ELSE 0

\* the report button: setEnableHazardReport(!enableHazardReport)
ToggleHazardReport ==
  /\ enableHazardReport' = ~enableHazardReport
  /\ lastOp' = "toggleReport"
  /\ UNCHANGED <<mapVars, hazardReportLocation>>
  /\ ClickEffect

\* a click on the map at coordinate c: the registered listener, if any,
\* calls onMapClick(c), which is setHazardReportLocation(c)
MapClick(c) ==
  /\ isLoaded
  /\ hazardReportLocation' = IF clickListeners > 0 THEN c
                             ELSE hazardReportLocation
  /\ lastOp' = "mapClick"
  /\ UNCHANGED <<mapVars, enableHazardReport>>
  /\ ClickEffect

\* onClose of the report form
CloseReport ==
  /\ hazardReportLocation # Null
  /\ hazardReportLocation' = Null
  /\ enableHazardReport' = FALSE
  /\ lastOp' = "closeReport"
  /\ UNCHANGED mapVars
  /\ ClickEffect

\* onSuccess of the report form: the refresh key is bumped (the map is
\* remounted), the form is closed and the mode is left
ReportSuccess ==
  /\ hazardReportLocation # Null
  /\ RefreshRequested
  /\ hazardReportLocation' = Null
  /\ enableHazardReport' = FALSE
  /\ ClickEffect

\* a step of the map while the walk page's report state stays as it is
MapStep(step) ==
  /\ step
  /\ UNCHANGED <<enableHazardReport, hazardReportLocation>>
  /\ ClickEffect

\* ======================================================================
\* The community list: loadPosts, the tabs, the pagination controls and the
\* delete button of a post.  Posts are listed in the order of their ids.
\* ======================================================================

PostsPerPage == 6

AllPosts == 1..MaxPosts

\* Math.ceil(n / POSTS_PER_PAGE)
PagesFor(n) == (n + PostsPerPage - 1) \div PostsPerPage

totalPages == PagesFor(Cardinality(posts))

\* posts.slice(startIndex, endIndex)
currentPosts ==
  {id \in posts :
     LET index == Cardinality({other \in posts : other < id})
     IN  /\ index >= (currentPage - 1) * PostsPerPage
         /\ index < (currentPage - 1) * PostsPerPage + PostsPerPage}

\* the list and its controls are rendered
ListShown == ~listLoading /\ posts # {}

\* the mount of the page: the effect on activeTab has called loadPosts
InitList ==
  /\ posts = {}
  /\ currentPage = 1
  /\ listLoading = TRUE
  /\ loads = 1
  /\ deletes = {}
  /\ serverPosts = AllPosts

\* loadPosts up to its await
loadPosts ==
  /\ loads < MaxLoads
  /\ loads' = loads + 1
  /\ listLoading' = TRUE

\* a tab button: the effect on activeTab calls loadPosts and setCurrentPage(1)
ChangeTab ==
  /\ loadPosts
  /\ currentPage' = 1
  /\ UNCHANGED <<posts, deletes, serverPosts>>

\* onSuccess of the editor: loadPosts, the page is left as it is
Reload ==
  /\ loadPosts
  /\ UNCHANGED <<posts, currentPage, deletes, serverPosts>>

\* loadPosts after its await, res.success && res.data
LoadSuccess ==
  /\ loads > 0
  /\ loads' = loads - 1
  /\ posts' = serverPosts
  /\ listLoading' = FALSE
  /\ UNCHANGED <<currentPage, deletes, serverPosts>>

\* loadPosts after its await, the else branch and the catch block
LoadFailure ==
  /\ loads > 0
  /\ loads' = loads - 1
  /\ posts' = {}
  /\ listLoading' = FALSE
  /\ UNCHANGED <<currentPage, deletes, serverPosts>>

\* a page number button
ClickPage(page) ==
  /\ ListShown /\ totalPages > 1
  /\ page \in 1..totalPages
  /\ currentPage' = page
  /\ UNCHANGED <<posts, listLoading, loads, deletes, serverPosts>>

\* the previous button: Math.max(1, prev - 1), disabled on page 1
PreviousPage ==
  /\ ListShown /\ totalPages > 1
  /\ currentPage # 1
  /\ currentPage' = IF currentPage - 1 > 1 THEN currentPage - 1 ELSE 1
  /\ UNCHANGED <<posts, listLoading, loads, deletes, serverPosts>>

\* the next button: Math.min(totalPages, prev + 1), disabled on the last page
NextPage ==
  /\ ListShown /\ totalPages > 1
  /\ currentPage # totalPages
  /\ currentPage' = IF currentPage + 1 < totalPages THEN currentPage + 1
                    ELSE totalPages
  /\ UNCHANGED <<posts, listLoading, loads, deletes, serverPosts>>

\* the delete button of a post on the page, confirmed: the handler keeps the
\* posts of the render it was created in
DeleteClick(id) ==
  /\ ListShown
  /\ id \in currentPosts
  /\ Cardinality(deletes) < MaxDeletes
  /\ Cardinality((AllPosts \ serverPosts) \cup {d.id : d \in deletes})
       < MaxDeleted
  /\ deletes' = deletes \cup {[id |-> id, posts |-> posts]}
  /\ UNCHANGED <<posts, currentPage, listLoading, loads, serverPosts>>

\* the delete handler after its await, res.success:
\* setPosts(posts.filter(p => p.id !== post.id))
DeleteSuccess(d) ==
  /\ d \in deletes
  /\ deletes' = deletes \ {d}
  /\ serverPosts' = serverPosts \ {d.id}
  /\ posts' = d.posts \ {d.id}
  /\ UNCHANGED <<currentPage, listLoading, loads>>

\* the delete handler after its await: success = false, or the catch block
DeleteFailure(d) ==
  /\ d \in deletes
  /\ deletes' = deletes \ {d}
  /\ UNCHANGED <<posts, currentPage, listLoading, loads, serverPosts>>

\* ======================================================================
\* Specifications
\* ======================================================================

walkState == <<isWalking, isPaused, isLoading, currentSessionId, startTime,
               elapsedTime, distance, stepCount, watchIdRef, positionsRef,
               lastPositionRef, mounted, geoSupported, geoWatches, interval,
               now, inflight, nextId, activeSeconds>>

Init == InitWalk /\ InitMap /\ InitAuth /\ InitForms /\ InitReport
          /\ InitList

\* The walk tracker on its own: the map stays as first mounted, nobody signs
\* in or out.
Next ==
  \/ (\E r \in Pending("routes") : RoutesResponse(r))
        /\ UNCHANGED <<mapVars, authVars, screenVars>>
  \/ StartWalk /\ UNCHANGED <<mapVars, authVars, screenVars>>
  \/ (\E r \in Pending("start") : StartSuccess(r))
        /\ UNCHANGED <<mapVars, authVars, screenVars>>
  \/ (\E r \in Pending("start"), k \in FailureKinds : StartFailure(r, k))
        /\ UNCHANGED <<mapVars, authVars, screenVars>>
  \/ PauseWalk /\ UNCHANGED <<mapVars, authVars, screenVars>>
  \/ StopWalk /\ UNCHANGED <<mapVars, authVars, screenVars>>
  \/ (\E r \in Pending("complete") : StopSuccess(r))
        /\ UNCHANGED <<mapVars, authVars, screenVars>>
  \/ (\E r \in Pending("complete"), k \in FailureKinds : StopFailure(r, k))
        /\ UNCHANGED <<mapVars, authVars, screenVars>>
  \/ (\E lat \in Lats : GpsSample(lat)) /\ UNCHANGED <<mapVars, authVars, screenVars>>
  \/ GpsError /\ UNCHANGED <<mapVars, authVars, screenVars>>
  \/ IntervalTick /\ UNCHANGED <<mapVars, authVars, screenVars>>
  \/ ClockAdvance /\ UNCHANGED <<mapVars, authVars, screenVars>>
  \/ Unmount /\ UNCHANGED <<mapVars, authVars, screenVars>>

Spec == Init /\ [][Next]_vars

\* The map on its own: the walk page stays Idle; whether the platform has
\* geolocation is fixed at the start.
NextMap ==
  \/ SdkLoaded /\ UNCHANGED <<walkState, authVars, screenVars>>
  \/ (\E q \in BagToSet(fixRequests), lat \in Coords : InitialFix(q, lat))
        /\ UNCHANGED <<walkState, authVars, screenVars>>
  \/ (\E q \in BagToSet(fixRequests), code \in ErrorCodes :
        InitialFixError(q, code))
        /\ UNCHANGED <<walkState, authVars, screenVars>>
  \/ (\E q \in BagToSet(fixRequests) : InitialFallbackError(q))
        /\ UNCHANGED <<walkState, authVars, screenVars>>
  \/ (\E lat \in Coords : WatchFix(lat)) /\ UNCHANGED <<walkState, authVars, screenVars>>
  \/ WatchError /\ UNCHANGED <<walkState, authVars, screenVars>>
  \/ DragStart /\ UNCHANGED <<walkState, authVars, screenVars>>
  \/ (\E c \in Coords : DragEnd(c)) /\ UNCHANGED <<walkState, authVars, screenVars>>
  \/ MoveToCurrentLocation /\ UNCHANGED <<walkState, authVars, screenVars>>
  \/ (\E q \in BagToSet(fixRequests), lat \in Coords : ReturnFix(q, lat))
        /\ UNCHANGED <<walkState, authVars, screenVars>>
  \/ (\E q \in BagToSet(fixRequests), code \in ErrorCodes :
        ReturnFixError(q, code))
        /\ UNCHANGED <<walkState, authVars, screenVars>>
  \/ (\E q \in BagToSet(fixRequests) : ReturnFallbackError(q))
        /\ UNCHANGED <<walkState, authVars, screenVars>>
  \/ (\E f \in BagToSet(hazardFetches), list \in HazardLists :
        HazardFetchSuccess(f, list))
        /\ UNCHANGED <<walkState, authVars, screenVars>>
  \/ (\E f \in BagToSet(hazardFetches), k \in FailureKinds :
        HazardFetchFailure(f, k))
        /\ UNCHANGED <<walkState, authVars, screenVars>>
  \/ RefreshRequested /\ UNCHANGED <<walkState, authVars, screenVars>>

SpecMap == Init /\ [][NextMap]_vars

\* Signing in, calling the server and being turned away, on their own.
NextAuth ==
  \/ KakaoLogin /\ UNCHANGED <<walkVars, mapVars, screenVars>>
  \/ (\E site \in Sites : Call(site)) /\ UNCHANGED <<walkVars, mapVars, screenVars>>
  \/ OpenProfile /\ UNCHANGED <<walkVars, mapVars, screenVars>>
  \/ (\E page \in Pages : OpenPage(page)) /\ UNCHANGED <<walkVars, mapVars, screenVars>>
  \/ (\E site \in Sites, status \in Statuses, image \in BOOLEAN :
        Respond(site, status, image))
        /\ UNCHANGED <<walkVars, mapVars, screenVars>>
  \/ LoginPageLoads /\ UNCHANGED <<walkVars, mapVars, screenVars>>
  \/ HandleLogout /\ UNCHANGED <<walkVars, mapVars, screenVars>>

SpecAuth == Init /\ [][NextAuth]_vars

\* The forms on their own.
NextForms ==
  \/ (\E site \in FormSites : OpenForm(site))
        /\ UNCHANGED <<walkVars, mapVars, authVars, reportVars, listVars>>
  \/ (\E withFile \in BOOLEAN : Submit(withFile))
        /\ UNCHANGED <<walkVars, mapVars, authVars, reportVars, listVars>>
  \/ (\E success, data \in BOOLEAN, message \in ServerMessages :
          UploadResponse(success, data, message))
        /\ UNCHANGED <<walkVars, mapVars, authVars, reportVars, listVars>>
  \/ UploadThrown /\ UNCHANGED <<walkVars, mapVars, authVars, reportVars, listVars>>
  \/ (\E success, data \in BOOLEAN, message \in ServerMessages :
          Response(success, data, message))
        /\ UNCHANGED <<walkVars, mapVars, authVars, reportVars, listVars>>
  \/ ResponseThrown /\ UNCHANGED <<walkVars, mapVars, authVars, reportVars, listVars>>
  \/ CloseForm /\ UNCHANGED <<walkVars, mapVars, authVars, reportVars, listVars>>

SpecForms == Init /\ [][NextForms]_vars

\* The accumulator on its own: a session has just started on a platform with
\* geolocation, and only fixes arrive, from a wider range of latitudes: the
\* noise threshold itself (5.0 m), just above it (5.1 m), the 55.6 m of the
\* worked example, and a jump of two kilometres.
WideLats == {0, 50, 51, 556, 20000}

InitAccumulator ==
  /\ isWalking = TRUE /\ isPaused = FALSE
  /\ isLoading = FALSE
  /\ currentSessionId = 1 /\ startTime = 0
  /\ elapsedTime = 0 /\ distance = 0 /\ stepCount = 0
  /\ watchIdRef = 1 /\ positionsRef = <<>> /\ lastPositionRef = Null
  /\ mounted = TRUE
  /\ geoSupported = TRUE
  /\ geoWatches = 1
  /\ interval = TRUE
  /\ now = 0
  /\ inflight = EmptyBag
  /\ nextId = 2
  /\ lastOp = "startOk"
  /\ activeSeconds = 0

NextAccumulator ==
  (\E lat \in WideLats : GpsSample(lat)) /\ UNCHANGED <<mapVars, authVars, screenVars>>

InitActiveSession == InitAccumulator /\ InitMap /\ InitAuth /\ InitForms /\ InitReport
          /\ InitList

SpecAccumulator == InitActiveSession /\ [][NextAccumulator]_vars

\* Overlapping hazard fetches: the watch moves the current location while
\* earlier fetches are pending; the server knows one hazard near each
\* coordinate and none near the default centre, and every fetch succeeds.
Nearby(loc) == IF loc \in Coords THEN {loc} ELSE {}

NextHazards ==
  \/ SdkLoaded /\ UNCHANGED <<walkState, authVars, screenVars>>
  \/ (\E lat \in Coords : watchFix(lat, MaxOverlap))
        /\ UNCHANGED <<walkState, authVars, screenVars>>
  \/ (\E f \in BagToSet(hazardFetches) : HazardFetchSuccess(f, Nearby(f)))
        /\ UNCHANGED <<walkState, authVars, screenVars>>

SpecHazards == Init /\ [][NextHazards]_vars

\* The community list on its own.
NextList ==
  \/ ChangeTab /\ UNCHANGED <<walkVars, mapVars, authVars, formVars, reportVars>>
  \/ Reload /\ UNCHANGED <<walkVars, mapVars, authVars, formVars, reportVars>>
  \/ LoadSuccess /\ UNCHANGED <<walkVars, mapVars, authVars, formVars, reportVars>>
  \/ LoadFailure /\ UNCHANGED <<walkVars, mapVars, authVars, formVars, reportVars>>
  \/ (\E page \in 1..PagesFor(MaxPosts) : ClickPage(page))
        /\ UNCHANGED <<walkVars, mapVars, authVars, formVars, reportVars>>
  \/ PreviousPage /\ UNCHANGED <<walkVars, mapVars, authVars, formVars, reportVars>>
  \/ NextPage /\ UNCHANGED <<walkVars, mapVars, authVars, formVars, reportVars>>
  \/ (\E id \in AllPosts : DeleteClick(id))
        /\ UNCHANGED <<walkVars, mapVars, authVars, formVars, reportVars>>
  \/ (\E d \in deletes : DeleteSuccess(d))
        /\ UNCHANGED <<walkVars, mapVars, authVars, formVars, reportVars>>
  \/ (\E d \in deletes : DeleteFailure(d))
        /\ UNCHANGED <<walkVars, mapVars, authVars, formVars, reportVars>>

SpecList == Init /\ [][NextList]_vars

\* The location sources and the errors the platform reports to them: an
\* Active session with its watch armed, and the map with its first request
\* and its "current location" button.
NextSampler ==
  \/ (\E lat \in Lats : GpsSample(lat))
        /\ UNCHANGED <<mapVars, authVars, screenVars>>
  \/ (\E code \in ErrorCodes : GpsErrorCode(code))
        /\ UNCHANGED <<mapVars, authVars, screenVars>>
  \/ SdkLoaded /\ UNCHANGED <<walkState, authVars, screenVars>>
  \/ (\E q \in BagToSet(fixRequests), lat \in Coords : InitialFix(q, lat))
        /\ UNCHANGED <<walkState, authVars, screenVars>>
  \/ (\E q \in BagToSet(fixRequests), code \in ErrorCodes :
        InitialFixError(q, code))
        /\ UNCHANGED <<walkState, authVars, screenVars>>
  \/ (\E q \in BagToSet(fixRequests) : InitialFallbackError(q))
        /\ UNCHANGED <<walkState, authVars, screenVars>>
  \/ MoveToCurrentLocation /\ UNCHANGED <<walkState, authVars, screenVars>>
  \/ (\E q \in BagToSet(fixRequests), lat \in Coords : ReturnFix(q, lat))
        /\ UNCHANGED <<walkState, authVars, screenVars>>
  \/ (\E q \in BagToSet(fixRequests), code \in ErrorCodes :
        ReturnFixError(q, code))
        /\ UNCHANGED <<walkState, authVars, screenVars>>
  \/ (\E q \in BagToSet(fixRequests) : ReturnFallbackError(q))
        /\ UNCHANGED <<walkState, authVars, screenVars>>
  \/ (\E f \in BagToSet(hazardFetches), list \in HazardLists :
        HazardFetchSuccess(f, list))
        /\ UNCHANGED <<walkState, authVars, screenVars>>
  \/ (\E f \in BagToSet(hazardFetches), k \in FailureKinds :
        HazardFetchFailure(f, k))
        /\ UNCHANGED <<walkState, authVars, screenVars>>

SpecSampler == InitActiveSession /\ [][NextSampler]_vars

\* Hazard-report mode on the walk page.
NextReport ==
  \/ MapStep(SdkLoaded) /\ UNCHANGED <<walkState, authVars, formVars, listVars>>
  \/ ToggleHazardReport /\ UNCHANGED <<walkState, authVars, formVars, listVars>>
  \/ (\E c \in Coords : MapClick(c))
        /\ UNCHANGED <<walkState, authVars, formVars, listVars>>
  \/ CloseReport /\ UNCHANGED <<walkState, authVars, formVars, listVars>>
  \/ ReportSuccess /\ UNCHANGED <<walkState, authVars, formVars, listVars>>
  \/ MapStep(\E q \in BagToSet(fixRequests), lat \in Coords :
               InitialFix(q, lat))
        /\ UNCHANGED <<walkState, authVars, formVars, listVars>>
  \/ MapStep(\E f \in BagToSet(hazardFetches), list \in HazardLists :
               HazardFetchSuccess(f, list))
        /\ UNCHANGED <<walkState, authVars, formVars, listVars>>

SpecReport == Init /\ [][NextReport]_vars

\* stopWalk on its own: a session in which the walker has covered d metres
\* in one segment (or has not moved) and the ticker last showed e seconds;
\* only the stop button is used.
InitStop ==
  \E d \in {0} \cup (6..MaxDistance), e \in 0..MaxElapsed :
    /\ isWalking = TRUE /\ isPaused = FALSE
    /\ isLoading = FALSE
    /\ currentSessionId = 1 /\ startTime = 0
    /\ elapsedTime = e
    /\ distance = d
    /\ stepCount = (IF d = 0 THEN 0 ELSE MathRound(10 * d, StrideDm))
    /\ watchIdRef = 1
    /\ positionsRef = (IF d = 0 THEN <<0>> ELSE <<0, 10 * d>>)
    /\ lastPositionRef = 10 * d
    /\ mounted = TRUE
    /\ geoSupported = TRUE
    /\ geoWatches = 1
    /\ interval = TRUE
    /\ now = e
    /\ inflight = EmptyBag
    /\ nextId = 2
    /\ lastOp = "tick"
    /\ activeSeconds = e

InitStopPressed == InitStop /\ InitMap /\ InitAuth /\ InitForms /\ InitReport
          /\ InitList

NextStop ==
  \/ StopWalk /\ UNCHANGED <<mapVars, authVars, screenVars>>
  \/ (\E r \in Pending("complete") : StopSuccess(r))
        /\ UNCHANGED <<mapVars, authVars, screenVars>>
  \/ (\E r \in Pending("complete"), k \in FailureKinds : StopFailure(r, k))
        /\ UNCHANGED <<mapVars, authVars, screenVars>>

SpecStop == InitStopPressed /\ [][NextStop]_vars

\* The stop and pause buttons pressed while a complete request is pending:
\* the session of SpecStop, with room for a second request in flight.
NextStopAgain ==
  \/ stopWalk(MaxPending) /\ UNCHANGED <<mapVars, authVars, screenVars>>
  \/ PauseWalk /\ UNCHANGED <<mapVars, authVars, screenVars>>
  \/ (\E r \in BagToSet(inflight) : StopSuccess(r))
        /\ UNCHANGED <<mapVars, authVars, screenVars>>
  \/ (\E r \in BagToSet(inflight), k \in FailureKinds : StopFailure(r, k))
        /\ UNCHANGED <<mapVars, authVars, screenVars>>

SpecStopAgain == InitStopPressed /\ [][NextStopAgain]_vars

\* ======================================================================
\* Claims about the walk tracker (checked under Spec)
\* ======================================================================

\* what lastOp holds after a failed start and after a failed stop
StartFailed == {"start_" \o k : k \in FailureKinds}
StopFailed == {"stop_" \o k : k \in FailureKinds}

sessionData == <<currentSessionId, startTime, distance, stepCount, elapsedTime,
                 positionsRef, lastPositionRef>>

\* C1: a GPS sample whose distance to the stored previous sample is <= 5 m is
\* discarded entirely: distance, stepCount and the stored last sample
\* (lastPositionRef) are all unchanged.
C1_NoiseSampleDiscarded ==
  [][lastOp' = "sampleRejected" => \A lat \in Lats :
        ( /\ GpsSample(lat)
          /\ lastPositionRef # Null
          /\ calculateDistance(lastPositionRef, lat) <= NoiseThresholdDm )
        => UNCHANGED <<distance, stepCount, lastPositionRef>>]_vars

\* C2: the elapsed time advances only while Active: the value a tick shows is
\* the number of seconds spent Active (it never includes Paused time), and
\* between two Paused states it does not change.
C2_ElapsedIsActiveTime ==
  [][ /\ (lastOp' = "tick" /\ IntervalTick) => elapsedTime' = activeSeconds'
      /\ (isWalking /\ isPaused /\ isWalking' /\ isPaused')
            => elapsedTime' = elapsedTime ]_vars

C8_StartFailureStaysIdle ==
  [][lastOp' \in StartFailed => \A r \in Pending("start"), k \in FailureKinds :
        StartFailure(r, k) =>
          /\ UNCHANGED <<isWalking, isPaused, sessionData, watchIdRef,
                         geoWatches, interval>>
          /\ ~isWalking =>
               /\ ~isWalking' /\ ~isPaused'
               /\ currentSessionId' = Null /\ startTime' = Null
               /\ distance' = 0 /\ stepCount' = 0 /\ elapsedTime' = 0
               /\ watchIdRef' = Null /\ geoWatches' = 0 /\ ~interval' ]_vars

\* C8 witness: a start has just failed on the mounted page, which is Idle
C8_Witness ==
  /\ lastOp \in StartFailed
  /\ mounted /\ ~isWalking /\ ~isLoading

\* the state a successful start from Idle leaves, but for the watch
StartedFresh(id, t) ==
  /\ isWalking' /\ ~isPaused'
  /\ currentSessionId' = id
  /\ startTime' = t
  /\ elapsedTime' = 0 /\ distance' = 0 /\ stepCount' = 0
  /\ positionsRef' = <<>> /\ lastPositionRef' = Null

\* C9 as stated: a successful start from Idle makes the session Active with
\* the server's id, startedAt = now, the accumulator zeroed, positions and
\* last sample cleared, and the location watch armed.
C9_StartArmsWatch ==
  [][lastOp' = "startOk" => \A r \in Pending("start") :
        (StartSuccess(r) /\ mounted /\ ~isWalking) =>
          /\ StartedFresh(nextId, now)
          /\ watchIdRef' # Null /\ geoWatches' = 1 ]_vars

\* C9 amended: as above, and the location watch is armed when the platform
\* has geolocation (navigator.geolocation); when it has none no watch is
\* registered.
C9_StartArmsWatchIfSupported ==
  [][lastOp' = "startOk" => \A r \in Pending("start") :
        (StartSuccess(r) /\ mounted /\ ~isWalking) =>
          /\ StartedFresh(nextId, now)
          /\ interval'
          /\ geoSupported => (watchIdRef' # Null /\ geoWatches' = 1)
          /\ ~geoSupported => (watchIdRef' = Null /\ geoWatches' = 0) ]_vars

\* C9 witness: a start has succeeded after the clock moved, the session is
\* Active with its start time and the watch is registered
C9_Witness ==
  /\ lastOp = "startOk"
  /\ mounted /\ isWalking /\ ~isPaused
  /\ currentSessionId = 1 /\ startTime = 1
  /\ watchIdRef # Null /\ geoWatches = 1

\* C10: a successful complete-session response to a stop made from Active or
\* Paused resets the page to the Idle-equivalent state: isWalking and
\* isPaused false, session id and start time cleared, elapsed, distance and
\* stepCount zero, positions and last sample cleared, the watch disarmed.
C10_StopSuccessResets ==
  [][lastOp' = "stopOk" => \A r \in Pending("complete") :
        (StopSuccess(r) /\ mounted /\ isWalking) =>
          /\ ~isWalking' /\ ~isPaused'
          /\ currentSessionId' = Null /\ startTime' = Null
          /\ elapsedTime' = 0 /\ distance' = 0 /\ stepCount' = 0
          /\ positionsRef' = <<>> /\ lastPositionRef' = Null
          /\ watchIdRef' = Null /\ geoWatches' = 0 ]_vars

\* C10 witness: a stop has just succeeded on the mounted page
C10_Witness ==
  /\ lastOp = "stopOk"
  /\ mounted /\ ~isWalking /\ nextId > 1
  /\ geoWatches = 0


\* ======================================================================
\* Claims about the map overlay
\* ======================================================================

\* C4: while the self-location marker is in manually-adjusted mode, no GPS
\* callback (the watch, the first fix or its timeout fallback, a fix asked
\* for by an earlier return to GPS or its fallback) changes the current
\* location.
C4_ManualModeIgnoresGps ==
  [][(isManuallyAdjustedRef /\ lastOp' \in {"initialFix", "watchFix", "returnFix"}) =>
       \A lat \in Coords :
          (\/ WatchFix(lat)
           \/ \E q \in BagToSet(fixRequests) : InitialFix(q, lat) \/ ReturnFix(q, lat))
            => UNCHANGED currentLocation ]_vars

\* C5: after a drag-end at c the current location is c, the caller has
\* received one more notification, carrying c, the hazard refresh it sets off
\* asks for the hazards around c, and the marker is still in manually-adjusted
\* mode.
C5_DragEndCommitsLocation ==
  [][lastOp' = "dragEnd" =>
       \A c \in Coords : DragEnd(c) =>
          /\ currentLocation' = c
          /\ isManuallyAdjustedRef'
          /\ notified' = Append(notified, c)
          /\ BagToSet(hazardFetches') = {c} ]_vars

\* C6: after a successful hazard fetch the markers on the map are exactly the
\* hazards of the response, the empty response included.
C6_MarkersAreLastResponse ==
  [][lastOp' = "hazardsOk" =>
       \A f \in BagToSet(hazardFetches), list \in HazardLists :
          HazardFetchSuccess(f, list) => markersRef' = list ]_vars

\* ======================================================================
\* Claims about authentication failures
\* ======================================================================

\* C7: a 401 or 403 response to a call of any call site leaves none of the
\* identity fields in the storage and the browser on, or on its way to, the
\* login view.
C7_AuthFailureSignsOut ==
  [][\A site \in BagToSet(calls), status \in AuthFailure, image \in BOOLEAN :
        Respond(site, status, image) =>
          /\ storage' \cap IdentityFields = {}
          /\ pathname' = "/login" \/ hrefAssigned' ]_vars

\* ======================================================================
\* Further claims about the walk tracker
\* ======================================================================

\* C11 as stated: on the mounted page distance and stepCount never decrease,
\* except at the step where a start succeeds.
C11_ResetOnlyAtStart ==
  [][mounted' =>
       \/ distance' >= distance /\ stepCount' >= stepCount
       \/ \E r \in Pending("start") : StartSuccess(r) ]_vars

\* C11: on the mounted page distance and stepCount never decrease, except
\* that both become zero at the step where a start succeeds and at the step
\* where a stop succeeds.
C11_AccumulatorMonotone ==
  [][mounted' =>
       \/ distance' >= distance /\ stepCount' >= stepCount
       \/ /\ \/ \E r \in Pending("start") : StartSuccess(r)
             \/ \E r \in Pending("complete") : StopSuccess(r)
          /\ distance' = 0 /\ stepCount' = 0 ]_vars

\* C11 witness: a second segment has been added to a distance that was
\* already positive
C11_Witness ==
  /\ lastOp = "sampleAccepted"
  /\ Len(positionsRef) = 3
  /\ distance > 56 /\ stepCount > 79

\* the walk state: the session, its flags, the watch and the ticker
walkSession == <<isWalking, isPaused, sessionData, watchIdRef, geoWatches,
                 interval>>

\* C12: a complete request is sent only while Walking with a session id that
\* a successful start handed out, and carries that id; while Idle the page
\* holds nothing of a session, and no step of the mounted page changes the
\* walk state except a successful start.
C12_CompleteOnlyForHeldSession ==
  [][/\ \A r \in Pending("complete")' :
          CopiesIn(r, inflight') > CopiesIn(r, inflight) =>
            /\ isWalking
            /\ currentSessionId \in 1..(nextId - 1)
            /\ r.id = currentSessionId
     /\ ~isWalking =>
          /\ currentSessionId = Null /\ startTime = Null
          /\ geoWatches = 0 /\ ~interval
          /\ mounted' =>
               \/ UNCHANGED walkSession
               \/ \E r \in Pending("start") : StartSuccess(r) ]_vars

\* C12 witness: back in Idle after a successful stop, while the clock has
\* moved since the session began
C12_Witness ==
  /\ lastOp = "stopOk"
  /\ ~isWalking /\ currentSessionId = Null
  /\ now > 0 /\ nextId = 2

\* C13: pauseWalk toggles isPaused and, through the effects, the watch and
\* the ticker; the session id, start time, distance, step count, elapsed
\* time, recorded positions and last sample are unchanged.  After a pause
\* neither watch nor ticker is armed; after a resume the ticker is armed and
\* the watch is armed where the platform has geolocation.
C13_PauseResumeFrame ==
  [][(lastOp' \in {"pause", "resume"} /\ PauseWalk) =>
       /\ UNCHANGED <<isWalking, sessionData, lastPositionRef, isLoading, inflight>>
       /\ isPaused' = ~isPaused
       /\ interval' = ~isPaused'
       /\ watchIdRef' = (IF isPaused' \/ ~geoSupported THEN Null ELSE 1)
       /\ geoWatches' = (IF isPaused' \/ ~geoSupported THEN 0 ELSE 1) ]_vars

\* C13 witness: a walk with distance on it has been paused and resumed
C13_Witness ==
  /\ lastOp = "resume"
  /\ isWalking /\ ~isPaused
  /\ distance > 0 /\ Len(positionsRef) >= 2
  /\ geoWatches = 1 /\ interval

\* C14: the walk page has at most one location watch registered, the one
\* whose id watchIdRef holds, and only while it is mounted and Active; after
\* a pause, after stopWalk, after a successful stop and after an unmount none
\* is registered.
C14_WatchOnlyWhileActive ==
  /\ geoWatches \in {0, 1}
  /\ geoWatches = 1 <=> watchIdRef # Null
  /\ geoWatches > 0 => mounted /\ isWalking /\ ~isPaused
  /\ lastOp \in {"pause", "stopWalk", "stopOk", "unmount"} => geoWatches = 0

\* C14 witness: a walk on a platform with geolocation has been paused
C14_Witness ==
  /\ lastOp = "pause"
  /\ geoSupported /\ isWalking /\ isPaused
  /\ lastPositionRef # Null
  /\ geoWatches = 0

C16_AcceptedSegmentAccumulates ==
  [][\A lat \in WideLats :
       (/\ GpsSample(lat)
        /\ lastPositionRef # Null
        /\ Abs(lat - lastPositionRef) > 50) =>
          LET d == Abs(lat - lastPositionRef)
          IN  /\ distance' = (10 * distance + d + 5) \div 10
              /\ stepCount' = stepCount + (2 * d + 7) \div 14
              /\ positionsRef' = Append(positionsRef, lat)
              /\ lastPositionRef' = lat
              /\ (distance = 0 /\ stepCount = 0 /\ d = 556) =>
                   distance' = 56 /\ stepCount' = 79 ]_vars

\* C16 witness: the 55.6 m segment of the example, then a jump of about two
\* kilometres added to it
C16_Witness ==
  /\ lastOp = "sampleAccepted"
  /\ positionsRef = <<0, 556, 20000>>
  /\ distance = 2000 /\ stepCount = 2857

\* C17: the complete request stopWalk sends carries the session id, the
\* accumulated distance, the elapsed time on display, and as calories the
\* distance times 0.05 rounded to the nearest integer, a half rounded up.
C17_CompleteRequestPayload ==
  [][(lastOp' = "stopWalk" /\ StopWalk) =>
       \E r \in Pending("complete")' :
          /\ inflight' = inflight (+) SetToBag({r})
          /\ r.id = currentSessionId
          /\ r.distance = distance
          /\ r.duration = elapsedTime
          /\ r.calories = (distance + 10) \div 20 ]_vars

\* C17 witness: a request for 110 m, where 110 * 0.05 = 5.5 rounds to 6
C17_Witness ==
  \E r \in Pending("complete") :
    /\ r.distance = 110 /\ r.calories = 6 /\ r.duration = 1
    /\ distance = 110 /\ elapsedTime = 1

\* ======================================================================
\* Further claims about the map overlay
\* ======================================================================

HazardsFailed == {"hazards_" \o k : k \in FailureKinds}

\* C18: when a hazard fetch has failed, the hazard list in state and the
\* hazard markers on the map are those of the last successful fetch, also
\* when the fetch was the one of a refresh asked for by the walk page.
C18_FailedFetchKeepsMarkers ==
  lastOp \in HazardsFailed =>
    /\ hazards = lastFetched
    /\ markersRef = lastFetched

\* ----------------------------------------------------------------------
\* C19: every response with success = false ends in an error on screen that
\* shows the server's message, or the generic fallback when there is none,
\* and the handler never runs its success continuation.
\* The post editor calls onSuccess on such a response and shows nothing; the
\* post delete buttons show nothing.
C19_FailureResponseShowsError ==
  (lastResponse.kind = "response" /\ ~lastResponse.success) =>
     /\ formError = MessageOrFallback(lastResponse.message)
     /\ ~continued

\* ----------------------------------------------------------------------
\* C20 as stated: the "current location" button clears manual mode and
\* issues one fresh location request, whatever the platform.
\* Without navigator.geolocation the handler only recentres the map.
C20_ReturnRequestsFix ==
  [][lastOp' = "moveToCurrentLocation" =>
       /\ ~isManuallyAdjustedRef'
       /\ BagCardinality(fixRequests') = BagCardinality(fixRequests) + 1]_vars

\* C20: the "current location" button clears manual mode and, where the
\* platform has geolocation, issues exactly one fresh location request
\* (none otherwise); when that request or its timeout fallback succeeds, the
\* current location and the map centre become the returned fix; and while the
\* ref is clear every watch fix sets the current location again (the marker
\* follows), the ref being set again only by a new drag.
C20_ReturnToGpsIfSupported ==
  [][/\ lastOp' = "moveToCurrentLocation" =>
          /\ ~isManuallyAdjustedRef'
          /\ currentLocation' = currentLocation
          /\ IF geoSupported
             THEN /\ BagCardinality(fixRequests')
                       = BagCardinality(fixRequests) + 1
                  /\ CopiesIn(FixRequest("return", currentLocation),
                              fixRequests')
                       = CopiesIn(FixRequest("return", currentLocation),
                                  fixRequests) + 1
             ELSE fixRequests' = fixRequests
     /\ lastOp' = "returnFix" =>
          /\ currentLocation' \in Coords
          /\ mapCenter' = currentLocation'
          /\ hazardFetches' = FetchFor(currentLocation', hazardFetches)
          /\ BagCardinality(fixRequests') = BagCardinality(fixRequests) - 1
          /\ isManuallyAdjustedRef' = isManuallyAdjustedRef
     /\ (lastOp' = "watchFix" /\ ~isManuallyAdjustedRef) =>
          /\ currentLocation' \in Coords
          /\ hazardFetches' = FetchFor(currentLocation', hazardFetches)
     /\ (~isManuallyAdjustedRef /\ isManuallyAdjustedRef') =>
          lastOp' = "dragStart"
    ]_vars

\* the marker is held, the button has cleared the ref set by the drag, its
\* request has been answered, and a watch fix has then moved the marker away
\* from the centre
C20_Witness ==
  /\ lastOp = "watchFix"
  /\ dragging /\ ~isManuallyAdjustedRef
  /\ fixRequests = EmptyBag
  /\ mapCenter \in Coords
  /\ currentLocation \in Coords
  /\ currentLocation # mapCenter

\* ----------------------------------------------------------------------
\* the getCurrentPosition calls made as a fallback after a timeout that
\* still await their callback
FallbackRequests ==
  CopiesIn(FixRequest("initialFallback", Null), fixRequests)
    + BagCardinality([q \in PendingFix("returnFallback") |->
                        CopiesIn(q, fixRequests)])

\* C21: when the platform reports a timeout to the walk tracker's watch one
\* fallback request is issued; when a fallback request fails no request is
\* added, and the last known position (of the walk and of the map) is
\* unchanged.
\* The error callback of the walk tracker's watch only logs.
C21_TimeoutFallsBackOnce ==
  [][/\ lastOp' = "gpsTimeout" =>
          /\ FallbackRequests' = FallbackRequests + 1
          /\ lastPositionRef' = lastPositionRef
     /\ lastOp' \in {"initialFallbackError", "returnFallbackError"} =>
          /\ BagCardinality(fixRequests') = BagCardinality(fixRequests) - 1
          /\ currentLocation' = currentLocation
          /\ lastPositionRef' = lastPositionRef
    ]_vars

\* ----------------------------------------------------------------------
\* C22: hazard-report mode is disabled initially; a click on the map is
\* reported to the caller (the clicked coordinate becomes the report
\* location) if the mode is enabled at the time of the click and leaves the
\* report location alone if it is not, in particular after the mode has been
\* disabled again.
C22_ClickReportedIffEnabled ==
  /\ ~enableHazardReport
  /\ [][lastOp' = "mapClick" =>
          IF enableHazardReport
          THEN hazardReportLocation' \in Coords
          ELSE hazardReportLocation' = hazardReportLocation]_vars

\* the mode has been enabled, a click has opened the form, the report has
\* succeeded (which bumps the refresh key and leaves the mode), and a click
\* has then been ignored
C22_Witness ==
  /\ lastOp = "mapClick"
  /\ hazardsRefreshKey > 0
  /\ ~enableHazardReport
  /\ hazardReportLocation = Null
  /\ clickListeners = 0

\* ----------------------------------------------------------------------
\* C23: the first sample received after a resume is not compared against a
\* sample captured before the pause: it adds nothing to distance and
\* stepCount.
\* pauseWalk and the GPS effect leave lastPositionRef as it was, so the first
\* sample after the resume closes a segment that starts before the pause.
C23_PausedMovementNotAdded ==
  [][(lastOp = "resume"
        /\ lastOp' \in {"sampleFirst", "sampleAccepted", "sampleRejected"}) =>
       /\ distance' = distance
       /\ stepCount' = stepCount]_vars

\* ----------------------------------------------------------------------
\* C24: whenever the session is Active, the page is mounted, the platform has
\* geolocation and no request awaits its response, a location watch is
\* armed; in particular after a stop whose complete-session call has failed.
\* stopWalk clears the watch before it calls the server, and a failure changes
\* neither isWalking nor isPaused, so the GPS effect does not run again.
C24_ActiveImpliesWatch ==
  (isWalking /\ ~isPaused /\ mounted /\ geoSupported /\ inflight = EmptyBag)
     => geoWatches > 0

\* ----------------------------------------------------------------------
\* C25: for one session id at most one complete-session request is in
\* flight at any time.
\* The stop button is not disabled while a request is pending and stopWalk
\* does not look at isLoading, so a second press sends a second request for
\* the same id.
C25_OneCompleteInFlight ==
  \A id \in 1..MaxSessions :
     BagCardinality([r \in {q \in Pending("complete") : q.id = id} |->
                       CopiesIn(r, inflight)]) <= 1

\* ----------------------------------------------------------------------
\* C26: in every state of the walk screen isPaused implies isWalking;
\* isWalking holds exactly when currentSessionId and startTime are both set;
\* and when no walk is on (at mount, after a completed walk, after a failed
\* start) elapsedTime, distance and stepCount are 0 and no position is
\* recorded.
C26_WalkStateConsistent ==
  /\ isPaused => isWalking
  /\ isWalking <=> (currentSessionId # Null /\ startTime # Null)
  /\ ~isWalking =>
       /\ elapsedTime = 0 /\ distance = 0 /\ stepCount = 0
       /\ positionsRef = <<>>

\* Idle again after a walk that was stopped with success, the clock advanced
C26_Witness ==
  /\ lastOp = "stopOk"
  /\ ~isWalking /\ ~isPaused
  /\ currentSessionId = Null /\ startTime = Null
  /\ nextId > 1
  /\ now > 0

\* ----------------------------------------------------------------------
\* C27: once all hazard responses have arrived, the displayed hazard list is
\* the one the server returned for the most recent location.
\* Each response is stored when it arrives, whatever location it was asked
\* for, so the last response to arrive wins.
C27_HazardsOfLatestLocation ==
  (isLoaded /\ hazardFetches = EmptyBag)
     => hazards = Nearby(LocOrDefault(currentLocation))

\* ----------------------------------------------------------------------
\* C28: once two delete requests for different posts have both succeeded and
\* no request is pending, neither deleted post is in the displayed list.
\* Each handler filters the list of the render in which the button was
\* pressed, so the second response puts the first deleted post back.
C28_DeletedPostsStayDeleted ==
  (deletes = {} /\ loads = 0 /\ Cardinality(AllPosts \ serverPosts) >= 2)
     => posts \cap (AllPosts \ serverPosts) = {}

\* ----------------------------------------------------------------------
\* C29: the current page is one of the pages of the list, so whenever the
\* list is shown and not empty the current page shows at least one post.
\* Neither the delete handler nor a reload moves currentPage.
C29_CurrentPageShowsPosts ==
  (ListShown /\ deletes = {}) =>
     /\ currentPage \in 1..totalPages
     /\ currentPosts # {}


\* C30: a manual logout (Layout.handleLogout) leaves no identity field
\* (authToken, userId, userNickname, userEmail, userProfileImageUrl) in the
\* local storage, so that whatever identity field is found there afterwards
\* was written for the user who signed in last.
C30_LogoutClearsIdentity ==
  [][HandleLogout => storage' \cap IdentityFields = {}]_vars

====
